---- MODULE Spec2Model ----
(***************************************************************************)
(* The offline commit queue of src/bot.py: load_queue / save_queue /       *)
(* queue_commit / push_queue / commit_and_push / check_push_status and the *)
(* part of main() that calls them (lines 194-221).                         *)
(*                                                                         *)
(* One invocation of main() is a process p.  Its position in the code is   *)
(* pc[p]; run[p] says whether it is running, returned, was ended by an     *)
(* uncaught exception, or was killed.  The queue file, the repository and  *)
(* the remote are shared by all invocations.                               *)
(*                                                                         *)
(* Histories hold the commits made since the clone; the commit the local   *)
(* branch and origin/<branch> share at the start is left implicit.         *)
(* File lists are modelled as sets of paths (the code keeps them as the    *)
(* list inquirer returns; their order plays no role in any operation).     *)
(***************************************************************************)
EXTENDS Integers, Sequences, FiniteSets, TLC

\* ---------------------------------------------------------------- bounds
\* commit requests the developer makes over the whole run
MaxRequests == 2
\* commits the local branch may take (replays commit again, so more than requests)
MaxLocal == MaxRequests + 1

\* process slots; invocations run one at a time take the lowest
Procs == {1, 2}
Files == {"a.py"}
Messages == {"", "fix bug"}
\* what requests.head(url, timeout=3) can do
ProbeOutcomes == {"ok", "http_error", "timeout", "conn_error"}

VARIABLES
  disk,      \* .devbot_queue.json: [st, q]
  local,     \* commits of the active local branch, oldest first
  remote,    \* commits of the branch on origin, oldest first
  unstaged,  \* paths whose working tree differs from the index
  staged,    \* paths whose index differs from HEAD
  clock,     \* number of commit requests made so far (also the wall clock)
  pc,        \* pc[p]: the statement invocation p is at
  run,       \* run[p]: "idle", "running", "done", "aborted", "killed"
  lq,        \* lq[p]: the local variable `queue` of push_queue / queue_commit
  idx,       \* idx[p]: 1-based position of the for loop of push_queue, 0 = not entered
  probe,     \* probe[p]: what the last is_online() call of p met, "none" before any
  args,      \* args[p]: the (commit_msg, files) main hands to commit_and_push
  snap,      \* snap[p]: disk, local, remote as they were when the current call was entered
  report,    \* report[p]: what check_push_status printed
  saved,     \* history: the requests whose record a completed save_queue has written
  raced      \* history: some invocation was started while another was running

vars == <<disk, local, remote, unstaged, staged, clock, pc, run, lq, idx, probe, args, snap, report,
         saved, raced>>
hist == <<saved, raced>>
repo == <<local, remote, unstaged, staged>>

\* ------------------------------------------------------------ data model
NoArgs == [message |-> "", files |-> {}, req |-> 0]
NoReport == [made |-> FALSE, fetchError |-> FALSE, synced |-> FALSE,
             staged |-> {}, unpushed |-> {}, queued |-> <<>>]
NoFile == [st |-> "absent", q |-> <<>>]

Range(s) == {s[i] : i \in 1..Len(s)}

\* is_online: True unless requests.head raised a RequestException
is_online(outcome) == outcome \notin {"timeout", "conn_error"}

\* (mutation) a parse error swallowed: except ValueError: return []
load_never_raises(d) == FALSE

\* load_queue: json.load raises on a file that exists and does not parse
load_raises(d) == d.st = "corrupt"
load_queue(d) == IF d.st = "valid" THEN d.q ELSE <<>>

\* save_queue, first half: open(QUEUE_FILE, "w") truncates the file
save_open(d) == [st |-> "corrupt", q |-> <<>>]
\* save_queue, second half: json.dump(queue, f) and close
save_dump(queue) == [st |-> "valid", q |-> queue]

\* the dict queue_commit appends; req is the request it was made for
QueueRecord(a, now) ==
  [message |-> a.message, files |-> a.files, timestamp |-> now, req |-> a.req]

\* (mutation) the record put first: queue.insert(0, record)
queue_prepend(queue, rec) == <<rec>> \o queue

\* queue.append(record)
queue_append(queue, rec) == Append(queue, rec)

\* repo.index.commit(message): a new commit on the local branch, always
NewCommit(message, req) == [sha |-> Len(local) + 1, message |-> message, req |-> req]

\* repo.iter_commits("a..b"): the commits of b that a does not have
iter_commits(a, b) == {c \in Range(b) : c \notin Range(a)}

\* what a call can change, as it is now
Snapshot ==
  [disk |-> disk, local |-> local, remote |-> remote,
   unstaged |-> unstaged, staged |-> staged]
NoSnapshot ==
  [disk |-> NoFile, local |-> <<>>, remote |-> <<>>, unstaged |-> {}, staged |-> {}]

TypeOK ==
  /\ disk.st \in {"absent", "valid", "corrupt"}
  /\ Len(local) <= MaxLocal
  /\ unstaged \subseteq Files
  /\ staged \subseteq Files
  /\ clock \in 0..MaxRequests
  /\ \A p \in Procs : run[p] \in {"idle", "running", "done", "aborted", "killed"}

Init ==
  /\ disk = NoFile
  /\ local = <<>>
  /\ remote = <<>>
  /\ unstaged = {}
  /\ staged = {}
  /\ clock = 0
  /\ pc = [p \in Procs |-> "main"]
  /\ run = [p \in Procs |-> "idle"]
  /\ lq = [p \in Procs |-> <<>>]
  /\ idx = [p \in Procs |-> 0]
  /\ probe = [p \in Procs |-> "none"]
  /\ args = [p \in Procs |-> NoArgs]
  /\ snap = [p \in Procs |-> NoSnapshot]
  /\ report = [p \in Procs |-> NoReport]
  /\ saved = {}
  /\ raced = FALSE

At(p, l) == run[p] = "running" /\ pc[p] = l
Goto(p, l) == pc' = [pc EXCEPT ![p] = l]
\* an exception nobody catches leaves main()
Raise(p) == run' = [run EXCEPT ![p] = "aborted"] /\ UNCHANGED pc

\* ------------------------------------------------------------ environment
\* the developer edits a tracked file between two invocations
EditFile(f) ==
  /\ \A p \in Procs : run[p] = "idle"
  /\ f \notin unstaged
  /\ unstaged' = unstaged \cup {f}
  /\ UNCHANGED <<disk, local, remote, staged, clock, pc, run, lq, idx, probe, args, snap, report, hist>>

\* main() up to line 194: project chosen, repository found
StartInvocation(p) ==
  /\ \A q \in Procs : run[q] = "idle" /\ p <= q
  /\ run' = [run EXCEPT ![p] = "running"]
  /\ Goto(p, "push_queue")
  /\ snap' = [snap EXCEPT ![p] = Snapshot]
  /\ UNCHANGED <<disk, repo, clock, lq, idx, probe, args, report, hist>>

\* the process is killed between two statements
Kill(p) ==
  /\ run[p] = "running"
  /\ run' = [run EXCEPT ![p] = "killed"]
  /\ UNCHANGED <<disk, repo, clock, pc, lq, idx, probe, args, snap, report, hist>>

\* the process is gone; its memory with it
Exit(p) ==
  /\ run[p] \in {"done", "aborted", "killed"}
  /\ run' = [run EXCEPT ![p] = "idle"]
  /\ pc' = [pc EXCEPT ![p] = "main"]
  /\ lq' = [lq EXCEPT ![p] = <<>>]
  /\ idx' = [idx EXCEPT ![p] = 0]
  /\ probe' = [probe EXCEPT ![p] = "none"]
  /\ args' = [args EXCEPT ![p] = NoArgs]
  /\ snap' = [snap EXCEPT ![p] = NoSnapshot]
  /\ report' = [report EXCEPT ![p] = NoReport]
  /\ UNCHANGED <<disk, repo, clock, hist>>

\* ------------------------------------------------- version-control steps
\* repo.index.add(files)
index_add(files) ==
  /\ staged' = staged \cup (files \cap unstaged)
  /\ unstaged' = unstaged \ files

\* repo.index.commit(message)
index_commit(message, req) ==
  /\ local' = Append(local, NewCommit(message, req))
  /\ staged' = {}

\* origin.push(): the whole local branch goes to the remote
origin_push == remote' = local

\* what origin.push() can do: it may always fail (network, auth), and it can
\* succeed only as a fast-forward, when the local branch has all of the remote's
push_outcomes == {ok \in BOOLEAN : ok => Range(remote) \subseteq Range(local)}

\* ------------------------------------------------------------ push_queue
\* (mutation) line 85 with `and` for `or`
returns_early_and(queue, o) == queue = <<>> /\ ~is_online(o)

\* line 85: if not queue or not is_online(): return
returns_early(queue, o) == queue = <<>> \/ ~is_online(o)

\* lines 84-87: load, the two early returns, origin = repo.remote(...)
push_queue(p) ==
  /\ At(p, "push_queue")
  /\ IF load_raises(disk)
       THEN Raise(p) /\ UNCHANGED <<lq, idx, probe>>
       ELSE /\ lq' = [lq EXCEPT ![p] = load_queue(disk)]
            /\ UNCHANGED run
            /\ IF load_queue(disk) = <<>>
                 THEN Goto(p, "list_unstaged") /\ UNCHANGED <<idx, probe>>
                 ELSE \E o \in ProbeOutcomes :
                        /\ probe' = [probe EXCEPT ![p] = o]
                        /\ IF returns_early(load_queue(disk), o)
                             THEN Goto(p, "list_unstaged") /\ UNCHANGED idx
                             ELSE Goto(p, "pq_add") /\ idx' = [idx EXCEPT ![p] = 1]
  /\ UNCHANGED <<disk, repo, clock, args, snap, report, hist>>

\* line 89: repo.index.add(item["files"])
pq_add(p) ==
  /\ At(p, "pq_add")
  /\ \E ok \in BOOLEAN :
       IF ok
         THEN index_add(lq[p][idx[p]].files) /\ Goto(p, "pq_commit") /\ UNCHANGED run
         ELSE Raise(p) /\ UNCHANGED <<unstaged, staged>>
  /\ UNCHANGED <<disk, local, remote, clock, lq, idx, probe, args, snap, report, hist>>

\* line 90: repo.index.commit(item["message"])
pq_commit(p) ==
  /\ At(p, "pq_commit")
  /\ Len(local) < MaxLocal
  /\ \E ok \in BOOLEAN :
       IF ok
         THEN /\ index_commit(lq[p][idx[p]].message, lq[p][idx[p]].req)
              /\ Goto(p, "pq_push") /\ UNCHANGED run
         ELSE Raise(p) /\ UNCHANGED <<local, staged>>
  /\ UNCHANGED <<disk, remote, unstaged, clock, lq, idx, probe, args, snap, report, hist>>

\* (mutation) line 93 indented into the loop body: the loop is left, and the
\* queue cleared, after the first push
pq_push_once(p) ==
  /\ At(p, "pq_push")
  /\ \E ok \in push_outcomes :
       IF ok
         THEN /\ origin_push
              /\ idx' = [idx EXCEPT ![p] = idx[p] + 1]
              /\ Goto(p, "pq_save_open")
              /\ UNCHANGED run
         ELSE Raise(p) /\ UNCHANGED <<remote, idx>>
  /\ UNCHANGED <<disk, local, unstaged, staged, clock, lq, probe, args, snap, report, hist>>

\* lines 91-92: origin.push(), then the next item or the end of the loop
pq_push(p) ==
  /\ At(p, "pq_push")
  /\ \E ok \in push_outcomes :
       IF ok
         THEN /\ origin_push
              /\ idx' = [idx EXCEPT ![p] = idx[p] + 1]
              /\ Goto(p, IF idx[p] < Len(lq[p]) THEN "pq_add" ELSE "pq_save_open")
              /\ UNCHANGED run
         ELSE Raise(p) /\ UNCHANGED <<remote, idx>>
  /\ UNCHANGED <<disk, local, unstaged, staged, clock, lq, probe, args, snap, report, hist>>

\* line 93, save_queue([]): line 70
pq_save_open(p) ==
  /\ At(p, "pq_save_open")
  /\ disk' = save_open(disk)
  /\ Goto(p, "pq_save_dump")
  /\ UNCHANGED <<repo, clock, run, lq, idx, probe, args, snap, report, hist>>

\* (mutation) save_queue(queue) for save_queue([])
pq_save_dump_keeps(p) ==
  /\ At(p, "pq_save_dump")
  /\ disk' = save_dump(lq[p])
  /\ Goto(p, "list_unstaged")
  /\ UNCHANGED <<repo, clock, run, lq, idx, probe, args, snap, report, hist>>

\* line 93, save_queue([]): line 71
pq_save_dump(p) ==
  /\ At(p, "pq_save_dump")
  /\ disk' = save_dump(<<>>)
  /\ Goto(p, "list_unstaged")
  /\ UNCHANGED <<repo, clock, run, lq, idx, probe, args, snap, report, hist>>

\* ------------------------------------------------------ main, lines 198-207
\* the unstaged files, the developer's selection and message
main_select(p) ==
  /\ At(p, "list_unstaged")
  /\ \E choices \in SUBSET unstaged :
       IF choices = {}
         THEN Goto(p, "show_queue") /\ UNCHANGED <<clock, args, snap>>
         ELSE /\ clock < MaxRequests
              /\ \E m \in Messages :
                   args' = [args EXCEPT ![p] =
                              [message |-> m, files |-> choices, req |-> clock + 1]]
              /\ clock' = clock + 1
              /\ snap' = [snap EXCEPT ![p] = Snapshot]
              /\ Goto(p, "commit_and_push")
  /\ UNCHANGED <<disk, repo, run, lq, idx, probe, report, hist>>

\* ------------------------------------------------------- commit_and_push
\* (mutation) repo.index.add(files) moved above the probe: staged even when queued
commit_and_push_stages(p) ==
  /\ At(p, "commit_and_push")
  /\ \E o \in ProbeOutcomes :
       /\ probe' = [probe EXCEPT ![p] = o]
       /\ Goto(p, IF is_online(o) THEN "cap_add" ELSE "queue_commit")
  /\ index_add(args[p].files)
  /\ UNCHANGED <<disk, local, remote, clock, run, lq, idx, args, snap, report, hist>>

\* line 108: if is_online()
commit_and_push(p) ==
  /\ At(p, "commit_and_push")
  /\ \E o \in ProbeOutcomes :
       /\ probe' = [probe EXCEPT ![p] = o]
       /\ Goto(p, IF is_online(o) THEN "cap_add" ELSE "queue_commit")
  /\ UNCHANGED <<disk, repo, clock, run, lq, idx, args, snap, report, hist>>

\* line 109: repo.index.add(files)
cap_add(p) ==
  /\ At(p, "cap_add")
  /\ \E ok \in BOOLEAN :
       IF ok
         THEN index_add(args[p].files) /\ Goto(p, "cap_commit") /\ UNCHANGED run
         ELSE Raise(p) /\ UNCHANGED <<unstaged, staged>>
  /\ UNCHANGED <<disk, local, remote, clock, lq, idx, probe, args, snap, report, hist>>

\* line 110: repo.index.commit(commit_msg)
cap_commit(p) ==
  /\ At(p, "cap_commit")
  /\ Len(local) < MaxLocal
  /\ \E ok \in BOOLEAN :
       IF ok
         THEN /\ index_commit(args[p].message, args[p].req)
              /\ Goto(p, "cap_push") /\ UNCHANGED run
         ELSE Raise(p) /\ UNCHANGED <<local, staged>>
  /\ UNCHANGED <<disk, remote, unstaged, clock, lq, idx, probe, args, snap, report, hist>>

\* lines 111-116: the push, and the bare except that turns a failure into queuing
cap_push(p) ==
  /\ At(p, "cap_push")
  /\ \E ok \in push_outcomes :
       IF ok
         THEN origin_push /\ Goto(p, "show_queue")
         ELSE Goto(p, "queue_commit") /\ UNCHANGED remote
  /\ UNCHANGED <<disk, local, unstaged, staged, clock, run, lq, idx, probe, args, snap, report, hist>>

\* ---------------------------------------------------------- queue_commit
\* (mutation) queue = [] for queue = load_queue()
queue_commit_fresh(p) ==
  /\ At(p, "queue_commit")
  /\ lq' = [lq EXCEPT ![p] = queue_append(<<>>, QueueRecord(args[p], clock))]
  /\ Goto(p, "qc_save_open")
  /\ UNCHANGED <<disk, repo, clock, run, idx, probe, args, snap, report, hist>>

\* lines 74-79: queue = load_queue(); queue.append({...})
queue_commit(p) ==
  /\ At(p, "queue_commit")
  /\ IF load_raises(disk)
       THEN Raise(p) /\ UNCHANGED lq
       ELSE /\ lq' = [lq EXCEPT ![p] =
                        queue_append(load_queue(disk), QueueRecord(args[p], clock))]
            /\ Goto(p, "qc_save_open")
            /\ UNCHANGED run
  /\ UNCHANGED <<disk, repo, clock, idx, probe, args, snap, report, hist>>

\* line 80, save_queue(queue): line 70
qc_save_open(p) ==
  /\ At(p, "qc_save_open")
  /\ disk' = save_open(disk)
  /\ Goto(p, "qc_save_dump")
  /\ UNCHANGED <<repo, clock, run, lq, idx, probe, args, snap, report, hist>>

\* (mutation) push_queue(repo) called again once the commit is queued
qc_save_dump_redrain(p) ==
  /\ At(p, "qc_save_dump")
  /\ disk' = save_dump(lq[p])
  /\ saved' = saved \cup {lq[p][i].req : i \in 1..Len(lq[p])}
  /\ Goto(p, "push_queue")
  /\ UNCHANGED <<repo, clock, run, lq, idx, probe, args, snap, report, raced>>

\* line 80, save_queue(queue): line 71
qc_save_dump(p) ==
  /\ At(p, "qc_save_dump")
  /\ disk' = save_dump(lq[p])
  /\ saved' = saved \cup {lq[p][i].req : i \in 1..Len(lq[p])}
  /\ Goto(p, "show_queue")
  /\ UNCHANGED <<repo, clock, run, lq, idx, probe, args, snap, report, raced>>

\* ------------------------------------------------------------- reporting
\* lines 210-217: show_queue() reads the queue; scan_todos touches no state
show_queue(p) ==
  /\ At(p, "show_queue")
  /\ IF load_raises(disk)
       THEN Raise(p) /\ UNCHANGED snap
       ELSE /\ Goto(p, "check_push_status")
            /\ snap' = [snap EXCEPT ![p] = Snapshot]
            /\ UNCHANGED run
  /\ UNCHANGED <<disk, repo, clock, lq, idx, probe, args, report, hist>>

\* line 156: the range handed to iter_commits
unpushed_commits == iter_commits(local, remote)

\* lines 160-168: what is printed once the three lists are known
StatusOf(unp, queued, stg) ==
  [made |-> TRUE, fetchError |-> FALSE,
   synced |-> (unp = {} /\ queued = <<>> /\ stg = {}),
   staged |-> stg,
   unpushed |-> {c.sha : c \in unp},
   queued |-> [i \in 1..Len(queued) |-> queued[i].message]]

\* lines 151-155: the fetch failed
FetchFailed ==
  [made |-> TRUE, fetchError |-> TRUE, synced |-> FALSE,
   staged |-> {}, unpushed |-> {}, queued |-> <<>>]

\* lines 149-168, then main returns
check_push_status(p) ==
  /\ At(p, "check_push_status")
  /\ \E fetched \in BOOLEAN :
       IF ~fetched
         THEN /\ report' = [report EXCEPT ![p] = FetchFailed]
              /\ run' = [run EXCEPT ![p] = "done"]
         ELSE IF load_raises(disk)
           THEN Raise(p) /\ UNCHANGED report
           ELSE /\ report' = [report EXCEPT ![p] =
                                StatusOf(unpushed_commits, load_queue(disk), unstaged)]
                /\ run' = [run EXCEPT ![p] = "done"]
  /\ UNCHANGED <<disk, repo, clock, pc, lq, idx, probe, args, snap, hist>>

Next ==
  \/ \E f \in Files : EditFile(f)
  \/ \E p \in Procs :
       \/ StartInvocation(p)
       \/ push_queue(p)
       \/ pq_add(p)
       \/ pq_commit(p)
       \/ pq_push(p)
       \/ pq_save_open(p)
       \/ pq_save_dump(p)
       \/ main_select(p)
       \/ commit_and_push(p)
       \/ cap_add(p)
       \/ cap_commit(p)
       \/ cap_push(p)
       \/ queue_commit(p)
       \/ qc_save_open(p)
       \/ qc_save_dump(p)
       \/ show_queue(p)
       \/ check_push_status(p)
       \/ Kill(p)
       \/ Exit(p)

Spec == Init /\ [][Next]_vars

\* ------------------------------------------------------ a shared remote
\* somebody else pushes a commit to the branch on origin, between two
\* invocations; the next fetch (line 152) brings it to origin/<branch>
CollaboratorPush ==
  /\ \A p \in Procs : run[p] = "idle"
  /\ \A c \in Range(remote) : c.req # 0
  /\ remote' = Append(remote, [sha |-> 0 - 1, message |-> "theirs", req |-> 0])
  /\ UNCHANGED <<disk, local, unstaged, staged, clock, pc, run, lq, idx, probe, args, snap, report, hist>>

\* ------------------------------------------------- overlapping invocations
\* the statement at which an invocation holds in memory the queue it loaded
\* with its record appended (lines 74-75) and has yet to write the file
HoldsCopyPcs == {"qc_save_open"}

\* the tool is started again while an invocation is between its load and its
\* save: nothing in the code (no lock on QUEUE_FILE) prevents it
StartConcurrent(p) ==
  /\ run[p] = "idle"
  /\ ~raced
  /\ \E q \in Procs : run[q] = "running" /\ pc[q] \in HoldsCopyPcs
  /\ run' = [run EXCEPT ![p] = "running"]
  /\ Goto(p, "push_queue")
  /\ snap' = [snap EXCEPT ![p] = Snapshot]
  /\ raced' = TRUE
  /\ UNCHANGED <<disk, repo, clock, lq, idx, probe, args, report, saved>>

\* invocations one at a time, up to the first overlap
StartSerial(p) == ~raced /\ StartInvocation(p)

\* an invocation is interrupted while it runs alone
KillSerial(p) == ~raced /\ Kill(p)

\* invocations that run to their end one at a time, then two that overlap
NextConc ==
  \/ \E f \in Files : EditFile(f)
  \/ \E p \in Procs :
       \/ StartSerial(p)
       \/ StartConcurrent(p)
       \/ push_queue(p)
       \/ pq_add(p)
       \/ pq_commit(p)
       \/ pq_push(p)
       \/ pq_save_open(p)
       \/ pq_save_dump(p)
       \/ main_select(p)
       \/ commit_and_push(p)
       \/ cap_add(p)
       \/ cap_commit(p)
       \/ cap_push(p)
       \/ queue_commit(p)
       \/ qc_save_open(p)
       \/ qc_save_dump(p)
       \/ show_queue(p)
       \/ check_push_status(p)
       \/ KillSerial(p)
       \/ Exit(p)

\* the same program with invocations that may overlap
SpecConc == Init /\ [][NextConc]_vars

NextShared == Next \/ CollaboratorPush

\* the same program on a repository whose remote others push to as well
SpecShared == Init /\ [][NextShared]_vars

\* ================================================================ claims
\* the statements of the for loop of push_queue, and the save after it
DrainLoopPcs == {"pq_add", "pq_commit", "pq_push"}
DrainPcs == DrainLoopPcs \cup {"pq_save_open", "pq_save_dump"}

\* the commits made since the current call of p was entered
MadeSince(p) == SubSeq(local, Len(snap[p].local) + 1, Len(local))
\* a commit for record rec was made by the current call of p and is on the remote
PushedSince(p, rec) ==
  \E c \in Range(remote) : c.sha > Len(snap[p].local) /\ c.req = rec.req
MessagesOf(queue) == [i \in 1..Len(queue) |-> queue[i].message]

\* C1: when the push of record K is the first step of a drain to fail, the
\* persisted queue is exactly records K..N of the queue the drain loaded.
C1_NoLossOnPartialDrain ==
  \A p \in Procs :
    (run[p] = "aborted" /\ pc[p] = "pq_push")
      => /\ disk.st = "valid"
         /\ disk.q = SubSeq(lq[p], idx[p], Len(lq[p]))

\* C2: the persisted queue holds the requests in the order they were made
\* (queue_commit appends), and a drain commits and pushes the records of the
\* queue it loaded first to last: its i-th commit is the i-th record's.
C2_OrderPreserved ==
  /\ \A i, j \in 1..Len(disk.q) : i < j => disk.q[i].req < disk.q[j].req
  /\ \A p \in Procs :
       pc[p] \in DrainPcs =>
         /\ Len(MadeSince(p)) <= Len(lq[p])
         /\ \A i \in 1..Len(MadeSince(p)) :
              /\ MadeSince(p)[i].req = lq[p][i].req
              /\ MadeSince(p)[i].message = lq[p][i].message
         /\ \A i, j \in 1..Len(MadeSince(p)) :
              i < j => MadeSince(p)[i].req < MadeSince(p)[j].req
         /\ \A i \in 1..Len(lq[p]) :
              PushedSince(p, lq[p][i]) => \A j \in 1..i : PushedSince(p, lq[p][j])

\* C2 witness: a drain has replayed two records requested one after the other
C2_Witness ==
  \E p \in Procs :
    /\ At(p, "pq_save_open")
    /\ Len(lq[p]) = 2
    /\ Len(MadeSince(p)) = 2
    /\ remote = local

\* C3: every commit request is committed to the local history at most once.
C3_NoDuplication ==
  \A i, j \in 1..Len(local) : local[i].req = local[j].req => i = j

\* C4: a stage, commit or push step that fails inside the drain does not end
\* the invocation.
C4_DrainFailureNotFatal ==
  \A p \in Procs : ~(run[p] = "aborted" /\ pc[p] \in DrainLoopPcs)

\* C5: at every point of a drain, a crash there included, each record of the
\* loaded queue whose push has not succeeded in this drain is still in the
\* persisted queue.
C5_RemovedOnlyAfterPush ==
  \A p \in Procs :
    pc[p] \in DrainPcs =>
      \A i \in 1..Len(lq[p]) :
        ~PushedSince(p, lq[p][i]) => (disk.st = "valid" /\ lq[p][i] \in Range(disk.q))

\* C5 witness: killed in the middle of a drain, one record pushed, one not
C5_Witness ==
  \E p \in Procs :
    /\ run[p] = "killed"
    /\ pc[p] = "pq_push"
    /\ idx[p] = 2
    /\ PushedSince(p, lq[p][1])
    /\ ~PushedSince(p, lq[p][2])

\* C6: when commit_and_push has returned without having pushed the commit
\* (probe offline, or push failed), the persisted queue is the queue as it was
\* on entry followed by one record with the given message and files.
C6_DispatchAppendsOne ==
  \A p \in Procs :
    (pc[p] = "show_queue" /\ args[p].req # 0
       /\ (~is_online(probe[p]) \/ ~PushedSince(p, args[p])))
      => /\ disk.st = "valid"
         /\ Len(disk.q) = Len(load_queue(snap[p].disk)) + 1
         /\ SubSeq(disk.q, 1, Len(disk.q) - 1) = load_queue(snap[p].disk)
         /\ disk.q[Len(disk.q)].message = args[p].message
         /\ disk.q[Len(disk.q)].files = args[p].files

\* C6 witness: the push failed after an online probe, with a record already queued
C6_Witness ==
  \E p \in Procs :
    /\ At(p, "show_queue")
    /\ args[p].req # 0
    /\ is_online(probe[p])
    /\ \E c \in Range(local) : c.req = args[p].req
    /\ ~PushedSince(p, args[p])
    /\ Len(disk.q) = 2

\* C7: when a drain that entered its loop has returned, every record it loaded
\* is pushed and the persisted queue is the empty list.
C7_FullDrainEmpties ==
  \A p \in Procs :
    (pc[p] = "list_unstaged" /\ idx[p] > 0)
      => /\ disk = save_dump(<<>>)
         /\ \A i \in 1..Len(lq[p]) : PushedSince(p, lq[p][i])
         /\ remote = local

\* C7 witness: a drain of two records has returned
C7_Witness ==
  \E p \in Procs : At(p, "list_unstaged") /\ idx[p] = 3 /\ Len(lq[p]) = 2

\* C8: when the loaded queue is empty or the probe says offline, push_queue
\* returns at once: nothing staged, committed or pushed, the queue file as it was.
C8_DrainNoOp ==
  \A p \in Procs :
    (pc[p] \in DrainPcs \cup {"list_unstaged"}
       /\ (lq[p] = <<>> \/ ~is_online(probe[p])))
      => /\ pc[p] = "list_unstaged"
         /\ idx[p] = 0
         /\ Snapshot = snap[p]

\* C8 witness: a queue with a record in it, and the probe said offline
C8_Witness ==
  \E p \in Procs :
    At(p, "list_unstaged") /\ lq[p] # <<>> /\ probe[p] = "timeout"

\* C9: when the fetch fails the report says so, does not say fully synced,
\* and still lists the uncommitted changes and the queued records.
C9_ReportToleratesFetchFailure ==
  \A p \in Procs :
    (run[p] = "done" /\ report[p].fetchError)
      => /\ ~report[p].synced
         /\ report[p].staged = unstaged
         /\ report[p].queued = MessagesOf(load_queue(disk))

\* C10: after a fetch, the report says fully synced exactly when there is no
\* uncommitted change, no local commit the remote lacks and no queued record,
\* and it lists every local commit the remote lacks as not pushed.
C10_SyncedIffAllEmpty ==
  \A p \in Procs :
    (run[p] = "done" /\ report[p].made /\ ~report[p].fetchError)
      => /\ report[p].synced <=>
              (unstaged = {} /\ iter_commits(remote, local) = {}
                 /\ load_queue(disk) = <<>>)
         /\ report[p].unpushed = {c.sha : c \in iter_commits(remote, local)}

\* C11: a save_queue cut short at any point leaves the queue file holding
\* either the whole old queue or the whole new one.
C11_SaveAtomic ==
  \A p \in Procs :
    /\ (run[p] = "killed" /\ pc[p] \in {"qc_save_open", "qc_save_dump"})
         => /\ ~load_raises(disk)
            /\ load_queue(disk) \in {load_queue(snap[p].disk), lq[p]}
    /\ (run[p] = "killed" /\ pc[p] \in {"pq_save_open", "pq_save_dump"})
         => /\ ~load_raises(disk)
            /\ load_queue(disk) \in {load_queue(snap[p].disk), <<>>}

\* the statements at which a save_queue call is between its open and its dump
MidSave(p) == At(p, "qc_save_dump") \/ At(p, "pq_save_dump")
\* the statements that start with a load_queue call
LoadPcs == {"push_queue", "queue_commit", "show_queue"}

\* C12: a queue file that exists and does not parse is never replaced or
\* removed by an operation that found it so, and every operation that loads
\* it ends there with the error (it does not go on as with an empty queue).
C12_CorruptSurfaced ==
  [][ (disk.st = "corrupt" /\ ~(\E p \in Procs : MidSave(p)))
        => /\ disk' = disk
           /\ \A p \in Procs :
                (At(p, pc[p]) /\ pc[p] \in LoadPcs /\ run'[p] = "running")
                  => pc'[p] = pc[p]
           /\ \A p \in Procs :
                (At(p, "check_push_status") /\ run'[p] = "done")
                  => report'[p].fetchError ]_vars

\* C12 witness: an invocation ended by the load error, the file untouched
C12_Witness ==
  \E p \in Procs :
    run[p] = "aborted" /\ pc[p] = "push_queue" /\ disk.st = "corrupt"

\* C13: is_online answers True only for a successful response: the online
\* branch of push_queue or commit_and_push is taken only after one.
C13_OnlineOnlyOnSuccess ==
  \A p \in Procs :
    pc[p] \in DrainPcs \cup {"cap_add", "cap_commit", "cap_push"}
      => probe[p] = "ok"

\* C14: when commit_and_push found the probe offline, nothing is staged,
\* committed or pushed by it: the repository is as it was on entry.
C14_OfflineQueuingLeavesRepo ==
  \A p \in Procs :
    (pc[p] \in {"queue_commit", "qc_save_open", "qc_save_dump", "show_queue"}
       /\ args[p].req # 0 /\ ~is_online(probe[p]))
      => /\ local = snap[p].local
         /\ remote = snap[p].remote
         /\ unstaged = snap[p].unstaged
         /\ staged = snap[p].staged

\* C14 witness: a request queued offline, commit_and_push returned
C14_Witness ==
  \E p \in Procs :
    /\ At(p, "show_queue")
    /\ args[p].req # 0
    /\ probe[p] = "conn_error"
    /\ \E i \in 1..Len(disk.q) : disk.q[i].req = args[p].req
    /\ unstaged # {}

\* C15: check_push_status changes neither the queue file nor the local
\* history, and whenever it has fetched and there is no uncommitted change, no
\* local commit the remote lacks and no queued record, it says fully synced.
C15_ReportReadOnlyRepeatable ==
  \A p \in Procs :
    /\ pc[p] = "check_push_status"
         => (disk = snap[p].disk /\ local = snap[p].local)
    /\ (run[p] = "done" /\ report[p].made /\ ~report[p].fetchError
          /\ unstaged = {} /\ staged = {}
          /\ iter_commits(remote, local) = {}
          /\ load_queue(disk) = <<>>)
         => report[p].synced

\* C16: every record of the persisted queue has a non-empty message and a
\* non-empty file list.
C16_RecordsWellFormed ==
  \A i \in 1..Len(disk.q) : disk.q[i].message # "" /\ disk.q[i].files # {}

\* C17: a commit is on the remote only if every request still queued that was
\* made before it is on the remote too.
C17_DispatchOrderAcrossPaths ==
  \A c \in Range(remote) :
    \A i \in 1..Len(disk.q) :
      disk.q[i].req < c.req => \E d \in Range(remote) : d.req = disk.q[i].req

\* the phase of main a statement belongs to: drain, dispatch, report
Phase(l) ==
  IF l \in DrainPcs \cup {"push_queue"} THEN 1
  ELSE IF l \in {"show_queue", "check_push_status"} THEN 3
  ELSE IF l = "main" THEN 0 ELSE 2

\* C18: an invocation starts with the drain and never goes back a phase
\* (drain, dispatch, report); while it drains no request has been taken; and
\* the report lists the queue as it is when main returns.
C18_DrainDispatchReport ==
  /\ [](\A p \in Procs :
          /\ pc[p] \in DrainPcs \cup {"push_queue"} => args[p] = NoArgs
          /\ (run[p] = "done" /\ ~report[p].fetchError)
               => report[p].queued = MessagesOf(load_queue(disk)))
  /\ [][\A p \in Procs :
          /\ (run[p] = "idle" /\ run'[p] # "idle") => pc'[p] = "push_queue"
          /\ run'[p] # "idle" => Phase(pc'[p]) >= Phase(pc[p])]_vars

\* C18 witness: the drain met a queued record and returned, the dispatch
\* queued a second one behind it, and the report lists both
C18_Witness ==
  \E p \in Procs :
    /\ run[p] = "done"
    /\ report[p].made
    /\ ~report[p].fetchError
    /\ args[p].req # 0
    /\ Len(report[p].queued) = 2
    /\ disk.q[2].req = args[p].req

\* C19: a saved record is lost without having been pushed only when two
\* invocations overlap: as long as invocations run one at a time, once none is
\* running every record whose save completed is still in the queue file or its
\* commit is on the remote
C19_NoLossWhenSerialized ==
  (~raced /\ \A p \in Procs : run[p] # "running") =>
    \A r \in saved :
      \/ disk.st = "valid" /\ \E i \in 1..Len(disk.q) : disk.q[i].req = r
      \/ \E c \in Range(remote) : c.req = r

\* two invocations overlapped and a record that was saved is gone from the
\* file although no commit was ever made for it
C19_Witness ==
  /\ raced
  /\ \A p \in Procs : run[p] = "done"
  /\ disk.st = "valid"
  /\ \E r \in saved :
       /\ \A i \in 1..Len(disk.q) : disk.q[i].req # r
       /\ \A c \in Range(local) \cup Range(remote) : c.req # r

====
